---- MODULE Spec2Model ----
(***************************************************************************)
(* Rock-paper-scissors rule engine: the Rules class of the server core     *)
(* (core.js as copied for NodeJS), the rule set-up of the editor, and the  *)
(* game server (server/index.js): its registry of games, the Game class    *)
(* and the message and close handlers of its connections.                  *)
(*                                                                         *)
(* _rule_board is a JavaScript object whose keys are choice names and      *)
(* whose values are arrays of the choices the key beats.  An object keeps  *)
(* its string keys in insertion order, so the board is modelled as a       *)
(* sequence of entries [key, val]; val is the array, in push order.        *)
(* Array indices are 0-based as in the source: a[i] is written At(a, i).   *)
(***************************************************************************)
EXTENDS Integers, Sequences, FiniteSets, TLC

VARIABLES
    rule_board,   \* Rules._rule_board of the instance under test
    prev_board,   \* _rule_board as it was when the last call was entered
    call,         \* the last call: [op, args, error, value]
    repeated,     \* the last call had the same op and args as the one before
    first_error,  \* when repeated: the error of the first of the two calls
    setup_pc,     \* number of editor.js set-up statements executed so far
    games,        \* server: the registry, game name -> Game
    conns,        \* server: per connection, the socket and the handler's state
    sent,         \* server: what the last handler sent, in order: [to, msg]
    crashed,      \* server: a handler threw; the process is gone
    pseudo,       \* the PseudoPlayer instances under test, by number
    cli_board,    \* _rule_board of an instance of the CLI copy of Rules
    cli_error     \* what the last call on the CLI copy threw

rules_vars == <<rule_board, prev_board, call, repeated, first_error, setup_pc>>

server_vars == <<games, conns, sent, crashed>>

cli_vars == <<cli_board, cli_error>>

vars == <<rule_board, prev_board, call, repeated, first_error, setup_pc,
          games, conns, sent, crashed, pseudo, cli_board, cli_error>>

(***************************************************************************)
(* Bounds and input universes                                              *)
(***************************************************************************)
MaxLen == 3

\* Number of connections the server accepts in a run.
NumConns == 4

\* Number of PseudoPlayer instances under test.
NumPlayers == 2

\* Longest beaten-list the CLI copy of Rules is driven to.
MaxBeaten == 2

\* Names that _rule_board, an ordinary object, inherits from
\* Object.prototype: _rule_board[name] is then a truthy value that is no
\* array.  "constructor" stands for all of them.
InheritedNames == {"constructor"}

Choices == {"Rock", "Paper", "Scissors"}

Names == Choices \cup InheritedNames

EditorChoices == {"Rock", "Paper", "Scissors", "Fire"}

RECURSIVE SeqsUpTo(_, _)
SeqsUpTo(S, n) ==
    IF n = 0 THEN {<<>>}
    ELSE LET shorter == SeqsUpTo(S, n - 1)
         IN  shorter \cup {Append(s, x) : s \in {t \in shorter : Len(t) = n - 1}, x \in S}

Rounds == SeqsUpTo(Choices, MaxLen)

EditorRounds == SeqsUpTo(EditorChoices, MaxLen)

(***************************************************************************)
(* JavaScript helpers                                                      *)
(***************************************************************************)
At(a, i) == a[i + 1]

includes(a, x) == \E k \in 1..Len(a) : a[k] = x

filter_out(a, x) == SelectSeq(a, LAMBDA c : c # x)

\* name is an own property of the board; its value is then an array.
has_key(board, name) == \E k \in 1..Len(board) : board[k].key = name

\* if (this._rule_board[name]): an array is truthy, and so is whatever the
\* object inherits under that name; a missing property is undefined.
truthy(board, name) == has_key(board, name) \/ name \in InheritedNames

get(board, name) == board[CHOOSE k \in 1..Len(board) : board[k].key = name].val

set(board, name, value) ==
    [k \in 1..Len(board) |->
        IF board[k].key = name THEN [key |-> name, val |-> value] ELSE board[k]]

NoError == "none"
RuleError == "RuleError"
TypeError == "TypeError"

(***************************************************************************)
(* class Rules                                                             *)
(***************************************************************************)
constructor == <<>>

choices(board) == [k \in 1..Len(board) |-> board[k].key]

Rule(beater, beaten) == [beater |-> beater, beaten |-> beaten]

add_choice(board, name) ==
    IF truthy(board, name) THEN board
    ELSE Append(board, [key |-> name, val |-> <<>>])

filter_all(board, name) ==
    [k \in 1..Len(board) |->
        [key |-> board[k].key, val |-> filter_out(board[k].val, name)]]

del_choice_no_filter(board, name) ==
    IF ~truthy(board, name) THEN board
    ELSE SelectSeq(board, LAMBDA e : e.key # name)

del_choice_no_delete(board, name) ==
    IF ~truthy(board, name) THEN board
    ELSE filter_all(board, name)

del_choice(board, name) ==
    IF ~truthy(board, name) THEN board
    ELSE SelectSeq(filter_all(board, name), LAMBDA e : e.key # name)

push_rule(board, rule) ==
    set(board, rule.beater, Append(get(board, rule.beater), rule.beaten))

\* Without the check for the contradicting rule.
add_rule_no_contradiction_check(board, rule) ==
    IF rule.beater = rule.beaten
    THEN [board |-> board, error |-> RuleError]
    ELSE LET added == add_choice(add_choice(board, rule.beater), rule.beaten)
         IN  IF ~has_key(added, rule.beater)
             THEN [board |-> added, error |-> TypeError]
             ELSE IF includes(get(added, rule.beater), rule.beaten)
             THEN [board |-> added, error |-> NoError]
             ELSE IF ~has_key(added, rule.beaten)
             THEN [board |-> added, error |-> TypeError]
             ELSE [board |-> push_rule(added, rule), error |-> NoError]

\* With the choices added before the beater === beaten check.
add_rule_create_first(board, rule) ==
    LET added == add_choice(add_choice(board, rule.beater), rule.beaten)
    IN  IF rule.beater = rule.beaten
        THEN [board |-> added, error |-> RuleError]
        ELSE IF ~has_key(added, rule.beater)
        THEN [board |-> added, error |-> TypeError]
        ELSE IF includes(get(added, rule.beater), rule.beaten)
        THEN [board |-> added, error |-> NoError]
        ELSE IF ~has_key(added, rule.beaten)
        THEN [board |-> added, error |-> TypeError]
        ELSE IF includes(get(added, rule.beaten), rule.beater)
        THEN [board |-> added, error |-> RuleError]
        ELSE [board |-> push_rule(added, rule), error |-> NoError]

\* With the push moved before the check for the contradicting rule.
add_rule_push_first(board, rule) ==
    IF rule.beater = rule.beaten
    THEN [board |-> board, error |-> RuleError]
    ELSE LET added == add_choice(add_choice(board, rule.beater), rule.beaten)
         IN  IF ~has_key(added, rule.beater)
             THEN [board |-> added, error |-> TypeError]
             ELSE IF includes(get(added, rule.beater), rule.beaten)
             THEN [board |-> added, error |-> NoError]
             ELSE IF ~has_key(added, rule.beaten)
             THEN [board |-> added, error |-> TypeError]
             ELSE IF includes(get(added, rule.beaten), rule.beater)
             THEN [board |-> push_rule(added, rule), error |-> RuleError]
             ELSE [board |-> push_rule(added, rule), error |-> NoError]

\* Without the early return for a rule that already exists.
add_rule_no_existing_check(board, rule) ==
    IF rule.beater = rule.beaten
    THEN [board |-> board, error |-> RuleError]
    ELSE LET added == add_choice(add_choice(board, rule.beater), rule.beaten)
         IN  IF ~has_key(added, rule.beater) \/ ~has_key(added, rule.beaten)
             THEN [board |-> added, error |-> TypeError]
             ELSE IF includes(get(added, rule.beaten), rule.beater)
             THEN [board |-> added, error |-> RuleError]
             ELSE [board |-> push_rule(added, rule), error |-> NoError]

\* Without the beater === beaten check.
add_rule_no_self_check(board, rule) ==
    LET added == add_choice(add_choice(board, rule.beater), rule.beaten)
    IN  IF ~has_key(added, rule.beater)
        THEN [board |-> added, error |-> TypeError]
        ELSE IF includes(get(added, rule.beater), rule.beaten)
        THEN [board |-> added, error |-> NoError]
        ELSE IF ~has_key(added, rule.beaten)
        THEN [board |-> added, error |-> TypeError]
        ELSE IF includes(get(added, rule.beaten), rule.beater)
        THEN [board |-> added, error |-> RuleError]
        ELSE [board |-> push_rule(added, rule), error |-> NoError]

\* With the rule stored under the beaten choice.
add_rule_reversed(board, rule) ==
    IF rule.beater = rule.beaten
    THEN [board |-> board, error |-> RuleError]
    ELSE LET added == add_choice(add_choice(board, rule.beater), rule.beaten)
         IN  IF ~has_key(added, rule.beater)
             THEN [board |-> added, error |-> TypeError]
             ELSE IF includes(get(added, rule.beater), rule.beaten)
             THEN [board |-> added, error |-> NoError]
             ELSE IF ~has_key(added, rule.beaten)
             THEN [board |-> added, error |-> TypeError]
             ELSE IF includes(get(added, rule.beaten), rule.beater)
             THEN [board |-> added, error |-> RuleError]
             ELSE [board |-> push_rule(added, Rule(rule.beaten, rule.beater)),
                   error |-> NoError]

\* The result is the board the call leaves behind and the error it throws.
\* After the two add_choice calls a name is either a key of the board or
\* inherited, and .includes of an inherited value is a TypeError.
add_rule(board, rule) ==
    IF rule.beater = rule.beaten
    THEN [board |-> board, error |-> RuleError]
    ELSE LET added == add_choice(add_choice(board, rule.beater), rule.beaten)
         IN  IF ~has_key(added, rule.beater)
             THEN [board |-> added, error |-> TypeError]
             ELSE IF includes(get(added, rule.beater), rule.beaten)
             THEN [board |-> added, error |-> NoError]
             ELSE IF ~has_key(added, rule.beaten)
             THEN [board |-> added, error |-> TypeError]
             ELSE IF includes(get(added, rule.beaten), rule.beater)
             THEN [board |-> added, error |-> RuleError]
             ELSE [board |-> push_rule(added, rule), error |-> NoError]

\* Removing the rule in both directions.
del_rule_both_directions(board, rule) ==
    IF truthy(board, rule.beater)
    THEN IF ~has_key(board, rule.beater)
         THEN [board |-> board, error |-> TypeError]
         ELSE LET removed == set(board, rule.beater,
                                 filter_out(get(board, rule.beater), rule.beaten))
              IN  [board |-> IF has_key(removed, rule.beaten)
                             THEN set(removed, rule.beaten,
                                      filter_out(get(removed, rule.beaten),
                                                 rule.beater))
                             ELSE removed,
                   error |-> NoError]
    ELSE [board |-> board, error |-> NoError]

\* .filter of an inherited value is a TypeError.
del_rule(board, rule) ==
    IF truthy(board, rule.beater)
    THEN IF ~has_key(board, rule.beater)
         THEN [board |-> board, error |-> TypeError]
         ELSE [board |-> set(board, rule.beater,
                             filter_out(get(board, rule.beater), rule.beaten)),
               error |-> NoError]
    ELSE [board |-> board, error |-> NoError]

\* With the inner loop looking only at the entries after i.
RECURSIVE test_inner_later(_, _, _, _)
test_inner_later(board, chs, i, j) ==
    IF j >= Len(chs) THEN [error |-> NoError, value |-> i]
    ELSE IF j <= i THEN test_inner_later(board, chs, i, j + 1)
    ELSE IF ~has_key(board, At(chs, i)) THEN [error |-> TypeError, value |-> -1]
    ELSE IF ~includes(get(board, At(chs, i)), At(chs, j))
    THEN [error |-> NoError, value |-> -1]
    ELSE test_inner_later(board, chs, i, j + 1)

\* With the lookup the wrong way round: choices[j] has to beat choices[i].
RECURSIVE test_inner_swapped(_, _, _, _)
test_inner_swapped(board, chs, i, j) ==
    IF j >= Len(chs) THEN [error |-> NoError, value |-> i]
    ELSE IF i = j THEN test_inner_swapped(board, chs, i, j + 1)
    ELSE IF ~has_key(board, At(chs, j)) THEN [error |-> TypeError, value |-> -1]
    ELSE IF ~includes(get(board, At(chs, j)), At(chs, i))
    THEN [error |-> NoError, value |-> -1]
    ELSE test_inner_swapped(board, chs, i, j + 1)

\* With choices[i] compared with the entry that follows it only.
test_inner_neighbour(board, chs, i, j) ==
    IF Len(chs) < 2 THEN [error |-> NoError, value |-> i]
    ELSE IF ~has_key(board, At(chs, i)) THEN [error |-> TypeError, value |-> -1]
    ELSE IF includes(get(board, At(chs, i)), At(chs, (i + 1) % Len(chs)))
    THEN [error |-> NoError, value |-> i]
    ELSE [error |-> NoError, value |-> -1]

\* The inner loop of test, from j on: i when choices[i] beats every other
\* entry, -1 at the first entry it does not beat; the lookup of a choice that
\* is no key of the board yields no array, whose .includes is a TypeError.
RECURSIVE test_inner(_, _, _, _)
test_inner(board, chs, i, j) ==
    IF j >= Len(chs) THEN [error |-> NoError, value |-> i]
    ELSE IF i = j THEN test_inner(board, chs, i, j + 1)
    ELSE IF ~has_key(board, At(chs, i)) THEN [error |-> TypeError, value |-> -1]
    ELSE IF ~includes(get(board, At(chs, i)), At(chs, j))
    THEN [error |-> NoError, value |-> -1]
    ELSE test_inner(board, chs, i, j + 1)

RECURSIVE test_outer(_, _, _)
test_outer(board, chs, i) ==
    IF i >= Len(chs) THEN [error |-> NoError, value |-> -1]
    ELSE LET winning_choice_idx == test_inner(board, chs, i, 0)
         IN  IF winning_choice_idx.error # NoError THEN winning_choice_idx
             ELSE IF winning_choice_idx.value # -1 THEN winning_choice_idx
             ELSE test_outer(board, chs, i + 1)

test(board, chs) == test_outer(board, chs, 0)

(***************************************************************************)
(* State machine: one Rules instance and the calls made on it              *)
(***************************************************************************)
NoCall == [op |-> "new", args |-> <<>>, error |-> NoError, value |-> -1]

\* JavaScript's undefined and null.
Undefined == "<undefined>"
Null == "<null>"

Conns == 1..NumConns

\* wss.on("connection"): an open socket and let state = {type: "initial"}.
Connection ==
    [status |-> "open", type |-> "initial", name |-> Undefined, player |-> Undefined]

NoGames == [n \in {} |-> Undefined]

\* A Player with the fields a PseudoPlayer uses; choice is not set by the
\* constructors.
PseudoPlayer(name) == [name |-> name, choice |-> Undefined, score |-> 0]

\* PseudoPlayer.set_choice
pseudo_set_choice(player, choice) == [player EXCEPT !.choice = choice]

\* PseudoPlayer.get_choice: the value returned, the player afterwards and
\* what was thrown.
get_choice(player) ==
    [value |-> player.choice,
     player |-> [player EXCEPT !.choice = Null],
     error |-> NoError]

Init ==
    /\ games = NoGames
    /\ conns = [c \in Conns |-> Connection]
    /\ sent = <<>>
    /\ crashed = FALSE
    /\ pseudo = [k \in 1..NumPlayers |-> PseudoPlayer(ToString(k))]
    /\ rule_board = constructor
    /\ prev_board = constructor
    /\ call = NoCall
    /\ repeated = FALSE
    /\ first_error = NoError
    /\ setup_pc = 0
    /\ cli_board = constructor
    /\ cli_error = NoError

\* Bookkeeping common to every call.
Record(op, args, error, value) ==
    /\ prev_board' = rule_board
    /\ call' = [op |-> op, args |-> args, error |-> error, value |-> value]
    /\ repeated' = (call.op = op /\ call.args = args)
    /\ first_error' = IF call.op = op /\ call.args = args THEN call.error
                      ELSE NoError
    /\ UNCHANGED <<server_vars, pseudo, cli_vars>>

AddChoice(name) ==
    /\ rule_board' = add_choice(rule_board, name)
    /\ Record("add_choice", <<name>>, NoError, -1)
    /\ UNCHANGED setup_pc

DelChoice(name) ==
    /\ rule_board' = del_choice(rule_board, name)
    /\ Record("del_choice", <<name>>, NoError, -1)
    /\ UNCHANGED setup_pc

AddRule(beater, beaten) ==
    LET result == add_rule(rule_board, Rule(beater, beaten))
    IN  /\ rule_board' = result.board
        /\ Record("add_rule", <<beater, beaten>>, result.error, -1)
        /\ UNCHANGED setup_pc

DelRule(beater, beaten) ==
    LET result == del_rule(rule_board, Rule(beater, beaten))
    IN  /\ rule_board' = result.board
        /\ Record("del_rule", <<beater, beaten>>, result.error, -1)
        /\ UNCHANGED setup_pc

Test(chs) ==
    LET result == test(rule_board, chs)
    IN  /\ rule_board' = rule_board
        /\ Record("test", chs, result.error, result.value)
        /\ UNCHANGED setup_pc

Next ==
    \/ \E name \in Names : AddChoice(name)
    \/ \E name \in Names : DelChoice(name)
    \/ \E beater \in Names, beaten \in Names : AddRule(beater, beaten)
    \/ \E beater \in Names, beaten \in Names : DelRule(beater, beaten)
    \/ \E chs \in Rounds : Test(chs)

Spec == Init /\ [][Next]_vars

(***************************************************************************)
(* editor.js: the module-level rule set-up, one add_rule per statement,    *)
(* and rounds tested against whatever has been set up so far.              *)
(***************************************************************************)
EditorRules ==
    << Rule("Paper", "Rock"),
       Rule("Scissors", "Paper"),
       Rule("Rock", "Scissors"),
       Rule("Fire", "Rock"),
       Rule("Fire", "Paper"),
       Rule("Fire", "Scissors") >>

EditorSetup ==
    /\ setup_pc < Len(EditorRules)
    /\ LET rule == EditorRules[setup_pc + 1]
           result == add_rule(rule_board, rule)
       IN  /\ rule_board' = result.board
           /\ Record("add_rule", <<rule.beater, rule.beaten>>, result.error, -1)
    /\ setup_pc' = setup_pc + 1

NextEditor ==
    \/ EditorSetup
    \/ \E chs \in EditorRounds : Test(chs)

SpecEditor == Init /\ [][NextEditor]_vars

(***************************************************************************)
(* Views of a board used to state the properties                           *)
(***************************************************************************)
Keys(board) == {board[k].key : k \in 1..Len(board)}

\* <<a, b>> is an edge when b occurs in the array stored under key a.
Edges(board) ==
    UNION {{<<board[k].key, board[k].val[m]>> : m \in 1..Len(board[k].val)} :
              k \in 1..Len(board)}

Count(a, x) == Cardinality({k \in 1..Len(a) : a[k] = x})

Range(a) == {a[k] : k \in 1..Len(a)}

\* The indices of a round whose entry beats the entry at every other index.
Winners(board, chs) ==
    {i \in 0..(Len(chs) - 1) :
        \A j \in 0..(Len(chs) - 1) :
            j # i => <<At(chs, i), At(chs, j)>> \in Edges(board)}

Min(S) == CHOOSE x \in S : \A y \in S : x <= y

(***************************************************************************)
(* C1. From an empty graph, after any sequence of add_choice, del_choice,  *)
(* add_rule and del_rule calls (throwing calls included) no two choices    *)
(* A, B, equal or not, beat each other.                                    *)
(***************************************************************************)
C1_Antisymmetric ==
    \A e \in Edges(rule_board) : <<e[2], e[1]>> \notin Edges(rule_board)

\* A contradicting add_rule has just thrown on a graph that has edges.
C1_Witness ==
    /\ call.op = "add_rule"
    /\ call.error = RuleError
    /\ call.args[1] # call.args[2]
    /\ <<call.args[2], call.args[1]>> \in Edges(rule_board)

(***************************************************************************)
(* C2. add_rule(C, C) throws a RuleError and leaves the graph exactly as   *)
(* it was, whether or not C is a choice of the graph.                      *)
(***************************************************************************)
C2_SelfRuleRejected ==
    (call.op = "add_rule" /\ call.args[1] = call.args[2])
        => (call.error = RuleError /\ rule_board = prev_board)

\* add_rule(C, C) was called with C not in a non-empty graph.
C2_Witness ==
    /\ call.op = "add_rule"
    /\ call.args[1] = call.args[2]
    /\ call.args[1] \notin Keys(prev_board)
    /\ prev_board # <<>>

(***************************************************************************)
(* C3. When A beats B, add_rule(B, A) throws a RuleError and changes       *)
(* neither the choices nor any beaten-set.                                 *)
(***************************************************************************)
C3_ContradictionRejected ==
    (call.op = "add_rule" /\ <<call.args[2], call.args[1]>> \in Edges(prev_board))
        => (call.error = RuleError /\ rule_board = prev_board)

\* add_rule(B, A) was called on a graph in which A beats B.
C3_Witness ==
    /\ call.op = "add_rule"
    /\ <<call.args[2], call.args[1]>> \in Edges(prev_board)
    /\ call.error = RuleError

(***************************************************************************)
(* C4. Every choice in a beaten-set is a key of the graph, and a           *)
(* successful add_rule(beater, beaten) leaves both of them in the choices. *)
(***************************************************************************)
C4_NoDanglingChoice ==
    /\ \A e \in Edges(rule_board) : e[2] \in Keys(rule_board)
    /\ (call.op = "add_rule" /\ call.error = NoError)
        => {call.args[1], call.args[2]} \subseteq Range(choices(rule_board))

\* A successful add_rule created both of its choices in a graph that
\* already had another one.
C4_Witness ==
    /\ call.op = "add_rule"
    /\ call.error = NoError
    /\ Keys(prev_board) \cap {call.args[1], call.args[2]} = {}
    /\ prev_board # <<>>
    /\ <<call.args[1], call.args[2]>> \in Edges(rule_board)

(***************************************************************************)
(* C5. del_choice(X) on a graph containing X removes X from the choices    *)
(* and from every beaten-set and keeps every other choice and every edge   *)
(* not involving X; on a graph not containing X it changes nothing.        *)
(***************************************************************************)
C5_DelChoiceTotal ==
    call.op = "del_choice" =>
        LET X == call.args[1]
        IN  IF X \in Keys(prev_board)
            THEN /\ X \notin Range(choices(rule_board))
                 /\ \A e \in Edges(rule_board) : e[2] # X
                 /\ Keys(rule_board) = Keys(prev_board) \ {X}
                 /\ Edges(rule_board) =
                        {e \in Edges(prev_board) : e[1] # X /\ e[2] # X}
                 /\ choices(rule_board) = filter_out(choices(prev_board), X)
            ELSE rule_board = prev_board

\* del_choice(X) removed a choice that was beaten by another choice, from a
\* graph that also had an edge not involving X.
C5_Witness ==
    /\ call.op = "del_choice"
    /\ \E e \in Edges(prev_board) : e[2] = call.args[1]
    /\ \E e \in Edges(prev_board) : e[1] # call.args[1] /\ e[2] # call.args[1]

(***************************************************************************)
(* C6. As claimed: for every pair A # B, the second of two add_rule(A, B)  *)
(* calls in a row leaves the graph as the first left it and does not       *)
(* throw.                                                                  *)
(***************************************************************************)
C6_SecondAddNeverThrows ==
    (call.op = "add_rule" /\ repeated /\ call.args[1] # call.args[2])
        => (rule_board = prev_board /\ call.error = NoError)

(***************************************************************************)
(* C6, amended. For every pair A # B, the second of two add_rule(A, B)     *)
(* calls in a row leaves the graph as the first left it and adds no        *)
(* duplicate entry to A's beaten-set; it throws exactly when the first     *)
(* call threw, and with the same error; when it does not throw, A's        *)
(* beaten-set holds B exactly once.                                        *)
(***************************************************************************)
C6_AddRuleIdempotent ==
    (call.op = "add_rule" /\ repeated /\ call.args[1] # call.args[2])
        => /\ rule_board = prev_board
           /\ call.error = first_error
           /\ has_key(rule_board, call.args[1])
                => Count(get(rule_board, call.args[1]), call.args[2]) <= 1
           /\ call.error = NoError
                => Count(get(rule_board, call.args[1]), call.args[2]) = 1

\* add_rule(A, B) was called twice in a row and both calls succeeded, the
\* first one having inserted the edge.
C6_Witness ==
    /\ call.op = "add_rule"
    /\ repeated
    /\ call.args[1] # call.args[2]
    /\ call.error = NoError
    /\ first_error = NoError

(***************************************************************************)
(* C7. For choices that are all keys of the graph, test returns the        *)
(* smallest index whose entry beats the entry at every other index, and    *)
(* -1 exactly when there is no such index.                                 *)
(***************************************************************************)
C7_TestFirstWinner ==
    (call.op = "test" /\ Range(call.args) \subseteq Keys(rule_board))
        => /\ call.error = NoError
           /\ call.value =
                IF Winners(rule_board, call.args) = {} THEN -1
                ELSE Min(Winners(rule_board, call.args))

\* A three-entry round was won by its last entry.
C7_Witness ==
    /\ call.op = "test"
    /\ Len(call.args) = 3
    /\ Range(call.args) \subseteq Keys(rule_board)
    /\ call.value = 2

(***************************************************************************)
(* C8. A round of two or more entries that are all the same choice C of    *)
(* the graph is a tie (-1); the one-entry round [C] is won by index 0.     *)
(***************************************************************************)
C8_UniformRoundTies ==
    (/\ call.op = "test"
     /\ Cardinality(Range(call.args)) = 1
     /\ Range(call.args) \subseteq Keys(rule_board))
        => /\ call.error = NoError
           /\ call.value = IF Len(call.args) >= 2 THEN -1 ELSE 0

\* A round of three equal entries was tested on a graph in which that
\* choice beats something.
C8_Witness ==
    /\ call.op = "test"
    /\ Len(call.args) = 3
    /\ Cardinality(Range(call.args)) = 1
    /\ \E e \in Edges(rule_board) : e[1] = call.args[1]
    /\ call.value = -1

(***************************************************************************)
(* C9. On a graph whose edges are a 3-cycle A > B > C > A, a round of two  *)
(* distinct choices is won by the index of the beater and a round holding  *)
(* all three choices is a tie; on the graph built by add_rule(Rock,        *)
(* Scissors), add_rule(Scissors, Paper), add_rule(Paper, Rock):            *)
(* test([Rock, Scissors]) = 0, test([Rock, Paper]) = 1 and                 *)
(* test([Rock, Paper, Scissors]) = -1.                                     *)
(***************************************************************************)
IsCycle(board) ==
    \E A \in Keys(board), B \in Keys(board), C \in Keys(board) :
        /\ Cardinality({A, B, C}) = 3
        /\ Keys(board) = {A, B, C}
        /\ Edges(board) = {<<A, B>>, <<B, C>>, <<C, A>>}

ClassicCycle ==
    add_rule(add_rule(add_rule(constructor,
        Rule("Rock", "Scissors")).board,
        Rule("Scissors", "Paper")).board,
        Rule("Paper", "Rock")).board

C9_ClassicCycle ==
    (call.op = "test" /\ IsCycle(rule_board)) =>
        /\ (Len(call.args) = 2 /\ call.args[1] # call.args[2]
               /\ Range(call.args) \subseteq Keys(rule_board))
             => call.value =
                    IF <<call.args[1], call.args[2]>> \in Edges(rule_board)
                    THEN 0 ELSE 1
        /\ Range(call.args) = Keys(rule_board) => call.value = -1
        /\ rule_board = ClassicCycle =>
             /\ call.args = <<"Rock", "Scissors">> => call.value = 0
             /\ call.args = <<"Rock", "Paper">> => call.value = 1
             /\ call.args = <<"Rock", "Paper", "Scissors">> => call.value = -1

\* The classic graph was built by the three add_rule calls and the round
\* [Rock, Paper] was won by Paper.
C9_Witness ==
    /\ call.op = "test"
    /\ rule_board = ClassicCycle
    /\ call.args = <<"Rock", "Paper">>
    /\ call.value = 1

(***************************************************************************)
(* C10. Every add_rule of the editor's set-up, the three Fire rules        *)
(* included, is accepted; once Fire beats Rock, Paper and Scissors on top  *)
(* of the classic cycle, a round in which exactly one position holds Fire  *)
(* is won by that position, and test([Rock, Fire, Paper]) = 1.             *)
(***************************************************************************)
C10_FireDominates ==
    /\ call.op = "add_rule" => call.error = NoError
    /\ (call.op = "test" /\ setup_pc = Len(EditorRules)
            /\ Count(call.args, "Fire") = 1)
        => /\ call.error = NoError
           /\ call.value \in 0..(Len(call.args) - 1)
           /\ At(call.args, call.value) = "Fire"
    /\ (call.op = "test" /\ setup_pc = Len(EditorRules)
            /\ call.args = <<"Rock", "Fire", "Paper">>)
        => call.value = 1

\* After the whole set-up the round [Rock, Fire, Paper] was won by Fire.
C10_Witness ==
    /\ setup_pc = Len(EditorRules)
    /\ {<<"Fire", "Rock">>, <<"Fire", "Paper">>, <<"Fire", "Scissors">>}
         \subseteq Edges(rule_board)
    /\ call.op = "test"
    /\ call.args = <<"Rock", "Fire", "Paper">>
    /\ call.value = 1

(***************************************************************************)
(* server/requests.js: the messages the server sends                       *)
(***************************************************************************)
ErrorRequest(message) == [type |-> "error", message |-> message]

JoinResponse(rules, players) ==
    [type |-> "join-response", rules |-> rules, players |-> players]

NotifyJoinRequest(name) == [type |-> "notify-join", name |-> name]

NotifyLeaveRequest(name) == [type |-> "notify-leave", name |-> name]

PlayerListResponse(players) ==
    [type |-> "player-list-response", players |-> players]

ChoiceRequest == [type |-> "choice"]

ResultsRequest(chs, winner) ==
    [type |-> "results", choices |-> chs, winner |-> winner]

\* connection.send(msg.stringify())
Send(connection, msg) == [to |-> connection, msg |-> msg]

(***************************************************************************)
(* server/index.js: class Game.  this.players is an object keyed by the    *)
(* player's name, kept as the sequence of its values in insertion order.   *)
(* A method yields the game it leaves behind, the messages it sent, the    *)
(* connections it called close() on, its return value and what it threw.   *)
(***************************************************************************)
\* if (x) for the values a password or a pending choice can take.
truthy_value(x) == x \notin {Undefined, Null, ""}

RemotePlayer(name, connection) ==
    [name |-> name, connection |-> connection, choice |-> Undefined, score |-> 0]

\* The rules field of a request that has none.
NoRules == <<>>

\* new Rules(rule_str): the board the text parses to, an empty board for a
\* missing text; nothing is checked.
new_Rules(rule_str) ==
    IF rule_str = NoRules THEN constructor ELSE rule_str

Game(name, password, connection, rules) ==
    [name |-> name, password |-> password, connection |-> connection,
     rules |-> rules, players |-> <<>>, state |-> "open"]

player_names(game) == [k \in 1..Len(game.players) |-> game.players[k].name]

has_player(game, player) ==
    \E k \in 1..Len(game.players) : game.players[k].name = player

\* if (this.players[player])
truthy_player(game, player) ==
    has_player(game, player) \/ player \in InheritedNames

player_index(game, player) ==
    CHOOSE k \in 1..Len(game.players) : game.players[k].name = player

Out(game, msgs, closed, ret, thrown) ==
    [game |-> game, sent |-> msgs, closed |-> closed, ret |-> ret,
     thrown |-> thrown]

\* Send msg to every player but the one named except, in roster order.
Broadcast(game, except, msg) ==
    LET others == SelectSeq(game.players, LAMBDA p : p.name # except)
    IN  [k \in 1..Len(others) |-> Send(others[k].connection, msg)]

\* A refused join: the error is sent and the joining connection closed.
refuse_join(game, connection, message) ==
    Out(game, <<Send(connection, ErrorRequest(message))>>, {connection},
        FALSE, NoError)

join_notify_all(game, player, connection) ==
    LET joined == [game EXCEPT
                      !.players = Append(@, RemotePlayer(player, connection))]
    IN  Out(joined,
            <<Send(connection, JoinResponse(game.rules, player_names(joined)))>>
               \o Broadcast(joined, Undefined, NotifyJoinRequest(player))
               \o <<Send(game.connection, NotifyJoinRequest(player))>>,
            {}, TRUE, NoError)

\* this.players[player] = new RemotePlayer(...): an existing key keeps its
\* place, a new one goes last; then the response and the notifications.
join(game, player, connection) ==
    LET joined ==
            [game EXCEPT !.players =
                IF has_player(game, player)
                THEN [@ EXCEPT ![player_index(game, player)] =
                         RemotePlayer(player, connection)]
                ELSE Append(@, RemotePlayer(player, connection))]
    IN  Out(joined,
            <<Send(connection, JoinResponse(game.rules, player_names(joined)))>>
               \o Broadcast(joined, player, NotifyJoinRequest(player))
               \o <<Send(game.connection, NotifyJoinRequest(player))>>,
            {}, TRUE, NoError)

add_player_no_name_check(game, player, connection, password) ==
    IF game.state # "open"
    THEN refuse_join(game, connection, "game is not open")
    ELSE IF truthy_value(game.password) /\ game.password # password
    THEN refuse_join(game, connection, "incorrect password")
    ELSE join(game, player, connection)

add_player_no_state_check(game, player, connection, password) ==
    IF truthy_value(game.password) /\ game.password # password
    THEN refuse_join(game, connection, "incorrect password")
    ELSE IF truthy_player(game, player)
    THEN refuse_join(game, connection, "player with that name already exists")
    ELSE join(game, player, connection)

add_player_no_password_check(game, player, connection, password) ==
    IF game.state # "open"
    THEN refuse_join(game, connection, "game is not open")
    ELSE IF truthy_player(game, player)
    THEN refuse_join(game, connection, "player with that name already exists")
    ELSE join(game, player, connection)

add_player(game, player, connection, password) ==
    IF game.state # "open"
    THEN refuse_join(game, connection, "game is not open")
    ELSE IF truthy_value(game.password) /\ game.password # password
    THEN refuse_join(game, connection, "incorrect password")
    ELSE IF truthy_player(game, player)
    THEN refuse_join(game, connection, "player with that name already exists")
    ELSE join(game, player, connection)

close_controller_only(game) ==
    Out(game, <<>>, {game.connection}, TRUE, NoError)

close(game) ==
    Out(game, <<>>,
        {game.connection}
            \cup {game.players[k].connection : k \in 1..Len(game.players)},
        TRUE, NoError)

leave_no_controller(game, player) ==
    LET left == [game EXCEPT
                    !.players = SelectSeq(@, LAMBDA p : p.name # player)]
    IN  Out(left, Broadcast(left, Undefined, NotifyLeaveRequest(player)),
            {}, FALSE, NoError)

leave(game, player) ==
    LET left == [game EXCEPT
                    !.players = SelectSeq(@, LAMBDA p : p.name # player)]
    IN  Out(left,
            Broadcast(left, Undefined, NotifyLeaveRequest(player))
               \o <<Send(game.connection, NotifyLeaveRequest(player))>>,
            {}, FALSE, NoError)

\* Taking the player out of the roster whatever the state, and no more.
del_player_leave_quietly(game, player) ==
    IF ~truthy_player(game, player) THEN Out(game, <<>>, {}, FALSE, NoError)
    ELSE Out([game EXCEPT !.players = SelectSeq(@, LAMBDA p : p.name # player)],
             <<>>, {}, FALSE, NoError)

del_player_no_close(game, player) ==
    IF ~truthy_player(game, player) THEN Out(game, <<>>, {}, FALSE, NoError)
    ELSE leave(game, player)

del_player(game, player) ==
    IF ~truthy_player(game, player) THEN Out(game, <<>>, {}, FALSE, NoError)
    ELSE IF game.state # "open" THEN close(game)
    ELSE leave(game, player)

player_list(game, connection) ==
    Out(game, <<Send(connection, PlayerListResponse(player_names(game)))>>,
        {}, TRUE, NoError)

start_game_no_players_check(game) ==
    LET started == [game EXCEPT !.state = "started"]
    IN  Out(started, Broadcast(started, Undefined, ChoiceRequest),
            {}, TRUE, NoError)

start_game_prompt_controller(game) ==
    LET started == [game EXCEPT !.state = "started"]
    IN  IF Len(game.players) = 0
        THEN Out(game,
                 <<Send(game.connection, ErrorRequest("not enough players"))>>,
                 {}, TRUE, NoError)
        ELSE Out(started,
                 Broadcast(started, Undefined, ChoiceRequest)
                    \o <<Send(game.connection, ChoiceRequest)>>,
                 {}, TRUE, NoError)

start_game(game) ==
    IF game.state # "open"
    THEN Out(game,
             <<Send(game.connection, ErrorRequest("game already started"))>>,
             {}, TRUE, NoError)
    ELSE IF Len(game.players) = 0
    THEN Out(game,
             <<Send(game.connection, ErrorRequest("not enough players"))>>,
             {}, TRUE, NoError)
    ELSE LET started == [game EXCEPT !.state = "started"]
         IN  Out(started, Broadcast(started, Undefined, ChoiceRequest),
                 {}, TRUE, NoError)

\* PseudoPlayer.get_choice for every player: the choices read, in roster
\* order, and the players with their choice reset to null.
get_choices(game) ==
    [k \in 1..Len(game.players) |-> get_choice(game.players[k]).value]

\* Reading the choices without clearing them.
reset_choices_keep(game) == game

reset_choices(game) ==
    [game EXCEPT !.players =
        [k \in 1..Len(game.players) |-> get_choice(game.players[k]).player]]

player_choices(players, chs) ==
    [n \in {players[k].name : k \in 1..Len(players)} |->
        chs[CHOOSE k \in 1..Len(players) : players[k].name = n]]

results(players, chs, winner_idx) ==
    IF winner_idx # -1
    THEN ResultsRequest(player_choices(players, chs),
                        At(players, winner_idx).name)
    ELSE ResultsRequest(player_choices(players, chs), Null)

attempt_reveal_any_choice(game) ==
    IF \A k \in 1..Len(game.players) : ~truthy_value(game.players[k].choice)
    THEN Out(game, <<>>, {}, TRUE, NoError)
    ELSE LET opened == [reset_choices(game) EXCEPT !.state = "open"]
             response == results(game.players, get_choices(game), -1)
         IN  Out(opened,
                 Broadcast(opened, Undefined, response)
                    \o <<Send(game.connection, response)>>,
                 {}, TRUE, NoError)

attempt_reveal(game) ==
    IF \E k \in 1..Len(game.players) : ~truthy_value(game.players[k].choice)
    THEN Out(game, <<>>, {}, TRUE, NoError)
    ELSE LET players == game.players
             chs == get_choices(game)
             opened == [reset_choices(game) EXCEPT !.state = "open"]
             winner_idx == test(game.rules, chs)
             response == results(players, chs, winner_idx.value)
         IN  IF winner_idx.error # NoError
             THEN Out(opened, <<>>, {}, TRUE, winner_idx.error)
             ELSE Out(opened,
                      Broadcast(opened, Undefined, response)
                         \o <<Send(game.connection, response)>>,
                      {}, TRUE, NoError)

\* PseudoPlayer.set_choice on the named player.
player_set_choice(game, player_name, choice) ==
    [game EXCEPT !.players[player_index(game, player_name)] =
                     pseudo_set_choice(@, choice)]

set_choice_no_state_check(game, player_name, choice) ==
    LET reveal == attempt_reveal(player_set_choice(game, player_name, choice))
    IN  Out(reveal.game, reveal.sent, {}, TRUE, reveal.thrown)

set_choice(game, player_name, choice) ==
    LET player == game.players[player_index(game, player_name)]
    IN  IF game.state # "started"
        THEN Out(game,
                 <<Send(player.connection,
                        ErrorRequest("the game has not started"))>>,
                 {}, TRUE, NoError)
        ELSE IF truthy_value(player.choice)
        THEN Out(game,
                 <<Send(player.connection,
                        ErrorRequest("choice already submitted"))>>,
                 {}, TRUE, NoError)
        ELSE LET invalid ==
                     IF ~includes(choices(game.rules), choice)
                     THEN <<Send(player.connection,
                                 ErrorRequest("invalid choice submitted"))>>
                     ELSE <<>>
                 reveal ==
                     attempt_reveal(player_set_choice(game, player_name, choice))
             IN  Out(reveal.game, invalid \o reveal.sent, {}, TRUE, reveal.thrown)

controller_request(game, request) ==
    CASE request.type = "player-list" -> player_list(game, game.connection)
      [] request.type = "start-game" ->
            IF game.state # "open"
            THEN Out(game,
                     <<Send(game.connection,
                            ErrorRequest("game already started"))>>,
                     {}, TRUE, NoError)
            ELSE start_game(game)
      [] OTHER -> Out(game, <<>>, {}, TRUE, NoError)

\* this.players[player] of a name that is not in the roster is undefined,
\* and reading a property of undefined is a TypeError.
player_request(game, player, request) ==
    IF request.type \in {"player-list", "make-choice"} /\ ~has_player(game, player)
    THEN Out(game, <<>>, {}, TRUE, TypeError)
    ELSE CASE request.type = "player-list" ->
                player_list(game, game.players[player_index(game, player)].connection)
           [] request.type = "make-choice" ->
                set_choice(game, player, request.choice)
           [] OTHER -> Out(game, <<>>, {}, TRUE, NoError)

(***************************************************************************)
(* server/index.js: the registry and the handlers of a connection.  A      *)
(* handler yields the registry and the connections it leaves behind, the   *)
(* messages it sent and what it threw.                                     *)
(***************************************************************************)
GameNames == {"lobby"}

\* Names that join requests carry and no create request does.
MissingGameNames == {"attic"} \cup InheritedNames

PlayerNames == {"alice", "bob"}

\* The password of a create request: absent or set.
GamePasswords == {Undefined, "secret"}

JoinPasswords == {Undefined, "secret", "wrong"}

\* Rules a create request can carry: the classic cycle with one more
\* choice, named by the empty string, that Rock beats.
EmptyNameRules == add_rule(ClassicCycle, Rule("Rock", "")).board

RuleSets == {EmptyNameRules}

\* The choice field of a make-choice request: choices of the rules and a
\* name that is none.
SubmittedChoices == {"Rock", "Paper", "", "Lizard"}

Requests ==
    {[type |-> "create", name |-> n, password |-> pw, rules |-> r] :
        n \in GameNames, pw \in GamePasswords, r \in RuleSets}
    \cup {[type |-> "create", name |-> n, password |-> Undefined,
           rules |-> ClassicCycle] : n \in InheritedNames}
    \cup {[type |-> "join", player_name |-> p, game_name |-> n,
           game_password |-> pw] :
        p \in PlayerNames, n \in GameNames, pw \in JoinPasswords}
    \cup {[type |-> "join", player_name |-> "alice", game_name |-> n,
           game_password |-> Undefined] : n \in MissingGameNames}
    \cup {[type |-> "player-list"], [type |-> "start-game"]}
    \cup {[type |-> "make-choice", choice |-> ch] : ch \in SubmittedChoices}

\* games[name] = game
put_game(gs, name, game) ==
    [n \in DOMAIN gs \cup {name} |-> IF n = name THEN game ELSE gs[n]]

\* delete games[name]
delete_game(gs, name) == [n \in DOMAIN gs \ {name} |-> gs[n]]

\* connection.close() on each of the connections: an open socket starts
\* closing, its close event comes later; otherwise nothing happens.
close_connections(cs, closed) ==
    [k \in DOMAIN cs |->
        IF k \in closed /\ cs[k].status = "open"
        THEN [cs[k] EXCEPT !.status = "closing"] ELSE cs[k]]

Handled(gs, cs, msgs, thrown) ==
    [games |-> gs, conns |-> cs, sent |-> msgs, thrown |-> thrown]

Refuse(gs, cs, c, message) ==
    Handled(gs, close_connections(cs, {c}),
            <<Send(c, ErrorRequest(message))>>, NoError)

\* if (games[name]): true of a registered name and of the names every
\* object inherits.
truthy_game(gs, name) == name \in DOMAIN gs \/ name \in InheritedNames

\* The create branch of the message handler.
on_create_overwrite(gs, cs, c, request) ==
    Handled(put_game(gs, request.name,
                     Game(request.name, request.password, c,
                          new_Rules(request.rules))),
            [cs EXCEPT ![c].type = "controller", ![c].name = request.name],
            <<>>, NoError)

on_create(gs, cs, c, request) ==
    IF truthy_game(gs, request.name)
    THEN Refuse(gs, cs, c, "game already exists")
    ELSE Handled(put_game(gs, request.name,
                          Game(request.name, request.password, c,
                               new_Rules(request.rules))),
                 [cs EXCEPT ![c].type = "controller", ![c].name = request.name],
                 <<>>, NoError)

\* The join branch of the message handler.
on_join_found(gs, cs, c, request) ==
    LET out == add_player(gs[request.game_name], request.player_name, c,
                          request.game_password)
        closed == close_connections(cs, out.closed)
    IN  Handled(put_game(gs, request.game_name, out.game),
                IF out.ret
                THEN [closed EXCEPT ![c].type = "player",
                                    ![c].name = request.game_name,
                                    ![c].player = request.player_name]
                ELSE closed,
                out.sent, out.thrown)

\* An inherited name is no game: calling its add_player is a TypeError.
on_join(gs, cs, c, request) ==
    IF ~truthy_game(gs, request.game_name)
    THEN Refuse(gs, cs, c, "game does not exist")
    ELSE IF request.game_name \notin DOMAIN gs
    THEN Handled(gs, cs, <<>>, TypeError)
    ELSE on_join_found(gs, cs, c, request)

on_message(gs, cs, c, request) ==
    LET state == cs[c]
    IN  IF state.type = "initial"
        THEN IF request.type = "create" THEN on_create(gs, cs, c, request)
             ELSE IF request.type = "join" THEN on_join(gs, cs, c, request)
             ELSE Refuse(gs, cs, c, "invalid request")
        ELSE IF state.name \notin DOMAIN gs
        THEN Handled(gs, cs, <<>>, TypeError)
        ELSE LET out == IF state.type = "controller"
                        THEN controller_request(gs[state.name], request)
                        ELSE player_request(gs[state.name], state.player, request)
             IN  Handled(put_game(gs, state.name, out.game),
                         close_connections(cs, out.closed), out.sent, out.thrown)

on_close(gs, cs, c) ==
    LET state == cs[c]
    IN  IF state.name \notin DOMAIN gs
        THEN Handled(gs, cs, <<>>, NoError)
        ELSE IF state.type = "controller"
        THEN LET out == close(gs[state.name])
             IN  Handled(delete_game(gs, state.name),
                         close_connections(cs, out.closed), out.sent, out.thrown)
        ELSE IF state.type = "player"
        THEN LET out == del_player(gs[state.name], state.player)
             IN  Handled(IF out.ret THEN delete_game(gs, state.name)
                         ELSE put_game(gs, state.name, out.game),
                         close_connections(cs, out.closed), out.sent, out.thrown)
        ELSE Handled(gs, cs, <<>>, NoError)

(***************************************************************************)
(* The server as a state machine.  One step is one event of one            *)
(* connection, handled to completion.  A message is taken from a           *)
(* connection while its socket is open, and the messages a controller or   *)
(* a player had in flight still arrive after the server closed its         *)
(* socket, until the close event; a connection that was refused is         *)
(* waiting for its answer and has nothing in flight.  The close event of   *)
(* a connection comes when the peer goes away or after the server closed   *)
(* it.  A throw in a handler is not caught anywhere: the process ends.     *)
(* Connections that have had no event yet are alike, so they are numbered  *)
(* in the order of their first event.                                      *)
(***************************************************************************)
InOrder(c) ==
    conns[c] = Connection => \A k \in 1..(c - 1) : conns[k] # Connection

\* With a send on a socket that is not open throwing.
connection_send_throws(status) ==
    IF status = "open" THEN NoError ELSE "Error"

\* connection.send(data) with no callback, on a socket of the given status:
\* the data is queued on an open socket and discarded on one that is
\* closing or closed; neither throws.
connection_send(status) == NoError

\* The send calls of a handler in the order it makes them, up to and
\* without the first that throws.
RECURSIVE send_all(_, _, _)
send_all(cs, msgs, k) ==
    IF k > Len(msgs) THEN [sent |-> msgs, thrown |-> NoError]
    ELSE IF connection_send(cs[msgs[k].to].status) # NoError
    THEN [sent |-> SubSeq(msgs, 1, k - 1),
          thrown |-> connection_send(cs[msgs[k].to].status)]
    ELSE send_all(cs, msgs, k + 1)

\* The effect of a handler; an exception, of the handler or of one of its
\* sends, is not caught and ends the process.
Handle(result) ==
    LET calls == send_all(conns, result.sent, 1)
    IN  /\ games' = result.games
        /\ conns' = result.conns
        /\ sent' = calls.sent
        /\ crashed' = (result.thrown # NoError \/ calls.thrown # NoError)
        /\ UNCHANGED <<rules_vars, pseudo, cli_vars>>

OnMessage(c, request) ==
    /\ ~crashed
    /\ \/ conns[c].status = "open"
       \/ conns[c].status = "closing" /\ conns[c].type # "initial"
    /\ InOrder(c)
    /\ Handle(on_message(games, conns, c, request))

OnClose(c) ==
    /\ ~crashed
    /\ conns[c].status \in {"open", "closing", "hung_up"}
    /\ InOrder(c)
    /\ Handle(on_close(games, [conns EXCEPT ![c].status = "closed"], c))

NextServer ==
    \/ \E c \in Conns, request \in Requests : OnMessage(c, request)
    \/ \E c \in Conns : OnClose(c)

SpecServer == Init /\ [][NextServer]_vars

(***************************************************************************)
(* Views of the server used to state the properties                        *)
(***************************************************************************)
MakeChoiceRequests == {r \in Requests : r.type = "make-choice"}

JoinRequests == {r \in Requests : r.type = "join"}

\* c is the connection of a player in the roster of the game it joined.
IsParticipant(c) ==
    /\ conns[c].type = "player"
    /\ conns[c].name \in DOMAIN games
    /\ \E k \in 1..Len(games[conns[c].name].players) :
          /\ games[conns[c].name].players[k].name = conns[c].player
          /\ games[conns[c].name].players[k].connection = c

GameOf(c) == games[conns[c].name]

PlayerOf(c) == GameOf(c).players[player_index(GameOf(c), conns[c].player)]

\* A choice has been recorded for the player and not yet read by a reveal.
HasSubmitted(player) == player.choice \notin {Undefined, Null}

Results(msgs) == {msgs[k].msg : k \in {i \in 1..Len(msgs) : msgs[i].msg.type = "results"}}

\* msgs is msg sent once to every player of the game and once to its
\* controller, and nothing else.
IsBroadcast(msgs, game, msg) ==
    /\ Len(msgs) = Len(game.players) + 1
    /\ Count(msgs, Send(game.connection, msg)) = 1
    /\ \A k \in 1..Len(game.players) :
          Count(msgs, Send(game.players[k].connection, msg)) = 1

OnlyError(msgs, c) ==
    /\ Len(msgs) = 1
    /\ msgs[1].to = c
    /\ msgs[1].msg.type = "error"

(***************************************************************************)
(* C11. In a started round, when the valid choice of the last roster       *)
(* participant still to submit is accepted, one results message is sent    *)
(* once to every roster participant and once to the controller, and the    *)
(* state is open afterwards; a results message is only ever sent by a      *)
(* step that ends a started round, so there is no second one.              *)
(***************************************************************************)
C11_OneResultsBroadcast ==
    [][\A c \in Conns, r \in MakeChoiceRequests :
        /\ (/\ IsParticipant(c)
            /\ GameOf(c).state = "started"
            /\ includes(choices(GameOf(c).rules), r.choice)
            /\ ~HasSubmitted(PlayerOf(c))
            /\ \A k \in 1..Len(GameOf(c).players) :
                  GameOf(c).players[k].connection # c
                      => HasSubmitted(GameOf(c).players[k])
            /\ OnMessage(c, r))
           => /\ Cardinality(Results(sent')) = 1
              /\ \A m \in Results(sent') : IsBroadcast(sent', GameOf(c), m)
              /\ conns[c].name \in DOMAIN games'
              /\ games'[conns[c].name].state = "open"
        /\ (Results(sent') # {} /\ OnMessage(c, r))
           => /\ IsParticipant(c)
              /\ GameOf(c).state = "started"
              /\ games'[conns[c].name].state = "open"]_vars

(***************************************************************************)
(* C12. Every results message maps the name of each roster participant to  *)
(* the choice that participant submitted in the round, and its winner is   *)
(* the name of the participant at the index Rules.test returns for those   *)
(* choices in roster order, or null exactly when test returns -1.          *)
(***************************************************************************)
\* The choices of the round that the make-choice r of c completes.
RoundChoices(c, r) ==
    [k \in 1..Len(GameOf(c).players) |->
        IF GameOf(c).players[k].connection = c THEN r.choice
        ELSE GameOf(c).players[k].choice]

C12_ResultsMatchTest ==
    [][\A c \in Conns, r \in MakeChoiceRequests :
        (Results(sent') # {} /\ OnMessage(c, r))
           => \A m \in Results(sent') :
                 LET game == GameOf(c)
                     chs == RoundChoices(c, r)
                     idx == test(game.rules, chs)
                 IN  /\ DOMAIN m.choices = Range(player_names(game))
                     /\ \A k \in 1..Len(game.players) :
                           m.choices[game.players[k].name] = chs[k]
                     /\ idx.error = NoError
                     /\ idx.value = -1 <=> m.winner = Null
                     /\ idx.value # -1
                           => m.winner = At(game.players, idx.value).name]_vars

(***************************************************************************)
(* C13. When a round is resolved with a winner, the score of that          *)
(* participant goes up by exactly 1 and every other score is unchanged;    *)
(* when the round is a tie no score changes.                               *)
(***************************************************************************)
C13_WinnerScores ==
    [][\A c \in Conns, r \in MakeChoiceRequests :
        (Results(sent') # {} /\ OnMessage(c, r))
           => \A m \in Results(sent') :
                 \A k \in 1..Len(GameOf(c).players) :
                     games'[conns[c].name].players[k].score =
                         GameOf(c).players[k].score
                             + (IF m.winner = GameOf(c).players[k].name
                                THEN 1 ELSE 0)]_vars

(***************************************************************************)
(* C14. In a started round, once a choice of a participant has been        *)
(* accepted, a second make-choice of that participant is answered by an    *)
(* error to that participant only, the pending choice is kept and there    *)
(* is no reveal.                                                           *)
(***************************************************************************)
C14_SecondChoiceRejected ==
    [][\A c \in Conns, r \in MakeChoiceRequests :
        (/\ IsParticipant(c)
         /\ GameOf(c).state = "started"
         /\ HasSubmitted(PlayerOf(c))
         /\ OnMessage(c, r))
           => /\ games' = games
              /\ sent' = <<Send(c, ErrorRequest("choice already submitted"))>>]_vars

(***************************************************************************)
(* C15. In a started round, a make-choice whose value is no choice of the  *)
(* rules of the game changes nothing: the pending choice of the            *)
(* participant stays unset, there is no reveal, and only an error is sent  *)
(* to that participant.                                                    *)
(***************************************************************************)
C15_InvalidChoiceRejected ==
    [][\A c \in Conns, r \in MakeChoiceRequests :
        (/\ IsParticipant(c)
         /\ GameOf(c).state = "started"
         /\ ~HasSubmitted(PlayerOf(c))
         /\ ~includes(choices(GameOf(c).rules), r.choice)
         /\ OnMessage(c, r))
           => /\ OnlyError(sent', c)
              /\ conns[c].name \in DOMAIN games'
              /\ games'[conns[c].name].state = "started"
              /\ \A k \in 1..Len(GameOf(c).players) :
                    HasSubmitted(games'[conns[c].name].players[k])
                        = HasSubmitted(GameOf(c).players[k])]_vars

(***************************************************************************)
(* C16. While the state of the game is open, a make-choice of a            *)
(* participant is answered by an error to that participant only; no        *)
(* choice is recorded, the state stays open and no results are sent.       *)
(***************************************************************************)
C16_ChoiceWhileOpenRejected ==
    [][\A c \in Conns, r \in MakeChoiceRequests :
        (/\ IsParticipant(c)
         /\ GameOf(c).state = "open"
         /\ OnMessage(c, r))
           => /\ games' = games
              /\ OnlyError(sent', c)
              /\ Results(sent') = {}]_vars

\* A participant of an open game that has another participant was just
\* told that the game has not started.
C16_Witness ==
    \E c \in Conns :
        /\ IsParticipant(c)
        /\ GameOf(c).state = "open"
        /\ Len(GameOf(c).players) = 2
        /\ sent = <<Send(c, ErrorRequest("the game has not started"))>>

(***************************************************************************)
(* C17. Once a round is started, when a roster participant disconnects     *)
(* before the reveal, the controller channel and every participant channel *)
(* of the game are closed and the game leaves the registry; that step      *)
(* sends no results message, and results are never sent to a channel that  *)
(* has been closed.                                                        *)
(***************************************************************************)
SessionConns(game) ==
    {game.connection}
        \cup {game.players[k].connection : k \in 1..Len(game.players)}

C17_MidRoundDisconnectCloses ==
    [][/\ \A c \in Conns :
            (/\ IsParticipant(c)
             /\ GameOf(c).state = "started"
             /\ OnClose(c))
               => /\ conns[c].name \notin DOMAIN games'
                  /\ \A k \in SessionConns(GameOf(c)) : conns'[k].status # "open"
                  /\ Results(sent') = {}
       /\ \A k \in 1..Len(sent') :
            sent'[k].msg.type = "results"
                => /\ conns[sent'[k].to].status = "open"
                   /\ conns'[sent'[k].to].status = "open"]_vars

\* A participant of a round of two has gone, and the controller and the
\* other participant are being closed with the game out of the registry.
C17_Witness ==
    /\ games = NoGames
    /\ sent = <<>>
    /\ \E c, d, k \in Conns :
          /\ conns[c].type = "player" /\ conns[c].status = "closed"
          /\ conns[d].type = "player" /\ conns[d].status = "closing"
          /\ conns[k].type = "controller" /\ conns[k].status = "closing"

(***************************************************************************)
(* C18 as stated. A join whose player_name is already in the roster fails  *)
(* with the name-taken error: the joining connection is informed and       *)
(* closed, the roster is unchanged and no join notification is sent.       *)
(***************************************************************************)
JoinFails(c) ==
    /\ games' = games
    /\ OnlyError(sent', c)
    /\ conns'[c].status = "closing"
    /\ conns'[c].type = "initial"
    /\ \A k \in Conns \ {c} : conns'[k] = conns[k]

NameTaken(r) ==
    /\ r.game_name \in DOMAIN games
    /\ has_player(games[r.game_name], r.player_name)

C18_NameTakenError ==
    [][\A c \in Conns, r \in JoinRequests :
        (/\ conns[c].type = "initial"
         /\ NameTaken(r)
         /\ OnMessage(c, r))
           => /\ JoinFails(c)
              /\ sent'[1].msg
                    = ErrorRequest("player with that name already exists")]_vars

(***************************************************************************)
(* C18. A join whose player_name is already in the roster fails: the       *)
(* joining connection is informed and closed, the roster is unchanged,     *)
(* the existing participant keeps its channel and no join notification is  *)
(* sent.  The error is the name-taken one when the game is open and the    *)
(* password is accepted; a game that is not open, or a wrong password, is  *)
(* reported first.                                                         *)
(***************************************************************************)
PasswordAccepted(game, password) ==
    game.password \in {Undefined, ""} \/ game.password = password

C18_NameCollisionFails ==
    [][\A c \in Conns, r \in JoinRequests :
        (/\ conns[c].type = "initial"
         /\ NameTaken(r)
         /\ OnMessage(c, r))
           => /\ JoinFails(c)
              /\ sent'[1].msg.message =
                    IF games[r.game_name].state # "open"
                    THEN "game is not open"
                    ELSE IF ~PasswordAccepted(games[r.game_name], r.game_password)
                    THEN "incorrect password"
                    ELSE "player with that name already exists"]_vars

\* A connection was refused the name of a participant of an open game.
C18_Witness ==
    \E c \in Conns, n \in DOMAIN games :
        /\ games[n].state = "open"
        /\ Len(games[n].players) >= 1
        /\ conns[c].status = "closing"
        /\ conns[c].type = "initial"
        /\ sent = <<Send(c, ErrorRequest("player with that name already exists"))>>

(***************************************************************************)
(* C19. While a round is in progress every join fails, whatever its name   *)
(* and password: the joining connection gets an error and is closed, the   *)
(* roster is unchanged and no join notification is sent.                   *)
(***************************************************************************)
C19_JoinWhileStartedFails ==
    [][\A c \in Conns, r \in JoinRequests :
        (/\ conns[c].type = "initial"
         /\ r.game_name \in DOMAIN games
         /\ games[r.game_name].state = "started"
         /\ OnMessage(c, r))
           => JoinFails(c)]_vars

\* A connection was refused by a started game that has no password.
C19_Witness ==
    \E c \in Conns, n \in DOMAIN games :
        /\ games[n].state = "started"
        /\ games[n].password = Undefined
        /\ conns[c].status = "closing"
        /\ conns[c].type = "initial"
        /\ sent = <<Send(c, ErrorRequest("game is not open"))>>

(***************************************************************************)
(* C20. A join to a game created with a password that supplies another     *)
(* password or none fails: the connection is informed and closed and the   *)
(* roster is unchanged.  A join to a game without a password is never      *)
(* refused for its password.                                               *)
(***************************************************************************)
C20_PasswordChecked ==
    [][\A c \in Conns, r \in JoinRequests :
        (/\ conns[c].type = "initial"
         /\ r.game_name \in DOMAIN games
         /\ OnMessage(c, r))
           => IF ~PasswordAccepted(games[r.game_name], r.game_password)
              THEN JoinFails(c)
              ELSE /\ \A k \in 1..Len(sent') :
                         sent'[k].msg # ErrorRequest("incorrect password")
                   /\ (/\ games[r.game_name].state = "open"
                       /\ ~has_player(games[r.game_name], r.player_name))
                         => /\ has_player(games'[r.game_name], r.player_name)
                            /\ conns'[c].status = "open"]_vars

\* A connection was refused for its password by an open game.
C20_Witness ==
    \E c \in Conns, n \in DOMAIN games :
        /\ games[n].state = "open"
        /\ games[n].password = "secret"
        /\ conns[c].status = "closing"
        /\ sent = <<Send(c, ErrorRequest("incorrect password"))>>

(***************************************************************************)
(* C21. A successful join adds exactly one participant, with score 0 and   *)
(* no pending choice, at the end of the roster; the joiner is sent one     *)
(* join-response with the rules of the game and the roster, every other    *)
(* participant and the controller are sent one notify-join naming the      *)
(* joiner, and the joiner is sent none.                                    *)
(***************************************************************************)
\* msgs holds msg exactly once for each connection of tos, and nothing else
\* but `others` further messages.
SentOnceTo(msgs, tos, msg, others) ==
    /\ Len(msgs) = Cardinality(tos) + others
    /\ \A k \in tos : Count(msgs, Send(k, msg)) = 1
    /\ \A k \in Conns \ tos : Count(msgs, Send(k, msg)) = 0

C21_JoinAddsAndNotifies ==
    [][\A c \in Conns, r \in JoinRequests :
        (/\ conns[c].type = "initial"
         /\ conns'[c].type = "player"
         /\ OnMessage(c, r))
           => LET game == games[r.game_name]
                  new == games'[r.game_name]
              IN  /\ new = [game EXCEPT !.players =
                               Append(@, [name |-> r.player_name,
                                          connection |-> c,
                                          choice |-> Undefined,
                                          score |-> 0])]
                  /\ ~has_player(game, r.player_name)
                  /\ conns'[c].name = r.game_name
                  /\ conns'[c].player = r.player_name
                  /\ Count(sent', Send(c, JoinResponse(game.rules,
                                                       player_names(new)))) = 1
                  /\ SentOnceTo(sent', SessionConns(game),
                                NotifyJoinRequest(r.player_name), 1)]_vars

\* The second participant joined: its response, then a notification to the
\* first participant and one to the controller.
C21_Witness ==
    \E n \in DOMAIN games :
        /\ Len(games[n].players) = 2
        /\ sent = <<Send(games[n].players[2].connection,
                         JoinResponse(games[n].rules, player_names(games[n]))),
                    Send(games[n].players[1].connection,
                         NotifyJoinRequest(games[n].players[2].name)),
                    Send(games[n].connection,
                         NotifyJoinRequest(games[n].players[2].name))>>

(***************************************************************************)
(* C22. When a roster participant disconnects while the game is open,      *)
(* exactly that participant leaves the roster, every remaining             *)
(* participant and the controller are sent one notify-leave naming it,     *)
(* and the game stays in the registry, open, with every other channel      *)
(* still open.                                                             *)
(***************************************************************************)
C22_LeaveWhileOpen ==
    [][\A c \in Conns :
        (/\ IsParticipant(c)
         /\ GameOf(c).state = "open"
         /\ OnClose(c))
           => LET game == GameOf(c)
                  n == conns[c].name
              IN  /\ n \in DOMAIN games'
                  /\ games'[n] = [game EXCEPT !.players =
                                     SelectSeq(@, LAMBDA p : p.connection # c)]
                  /\ Len(games'[n].players) = Len(game.players) - 1
                  /\ SentOnceTo(sent', SessionConns(games'[n]),
                                NotifyLeaveRequest(conns[c].player), 0)
                  /\ \A k \in Conns \ {c} : conns'[k] = conns[k]
                  /\ \A k \in SessionConns(games'[n]) :
                        conns'[k].status = "open"]_vars

\* One of two participants left an open game.
C22_Witness ==
    \E c \in Conns, n \in DOMAIN games :
        /\ conns[c].type = "player"
        /\ conns[c].status = "closed"
        /\ games[n].state = "open"
        /\ Len(games[n].players) = 1
        /\ sent = <<Send(games[n].players[1].connection,
                         NotifyLeaveRequest(conns[c].player)),
                    Send(games[n].connection,
                         NotifyLeaveRequest(conns[c].player))>>

(***************************************************************************)
(* C23. A start-game request fails when the game is not open or its        *)
(* roster is empty: an error is sent to the controller, the state and the  *)
(* pending choices are unchanged and no participant is prompted.           *)
(***************************************************************************)
\* c is the connection of the controller of the game registered under the
\* name it created.
IsController(c) ==
    /\ conns[c].type = "controller"
    /\ conns[c].name \in DOMAIN games
    /\ games[conns[c].name].connection = c

StartGameRequest == [type |-> "start-game"]

C23_StartGameFails ==
    [][\A c \in Conns :
        (/\ IsController(c)
         /\ GameOf(c).state # "open" \/ Len(GameOf(c).players) = 0
         /\ OnMessage(c, StartGameRequest))
           => /\ games' = games
              /\ OnlyError(sent', c)]_vars

\* The controller asked to start a round that is under way with a choice
\* pending.
C23_Witness ==
    \E c \in Conns :
        /\ IsController(c)
        /\ GameOf(c).state = "started"
        /\ \E k \in 1..Len(GameOf(c).players) :
              HasSubmitted(GameOf(c).players[k])
        /\ sent = <<Send(c, ErrorRequest("game already started"))>>

(***************************************************************************)
(* C24. A start-game request to an open game with a roster that is not     *)
(* empty moves the game to started and sends one choice prompt to every    *)
(* roster participant and none to the controller.                          *)
(***************************************************************************)
RosterConns(game) ==
    {game.players[k].connection : k \in 1..Len(game.players)}

C24_StartGamePrompts ==
    [][\A c \in Conns :
        (/\ IsController(c)
         /\ GameOf(c).state = "open"
         /\ Len(GameOf(c).players) > 0
         /\ OnMessage(c, StartGameRequest))
           => /\ games' = [games EXCEPT ![conns[c].name].state = "started"]
              /\ SentOnceTo(sent', RosterConns(GameOf(c)), ChoiceRequest, 0)]_vars

\* A round of two participants was started.
C24_Witness ==
    \E n \in DOMAIN games :
        /\ games[n].state = "started"
        /\ Len(games[n].players) = 2
        /\ sent = <<Send(games[n].players[1].connection, ChoiceRequest),
                    Send(games[n].players[2].connection, ChoiceRequest)>>

(***************************************************************************)
(* C25. From a state of a started round in which a roster participant has  *)
(* no pending choice, no step sends a results message or takes the game    *)
(* out of state started, except a make-choice that leaves no participant   *)
(* without a choice and the close event of a connection of that game       *)
(* name.                                                                   *)
(***************************************************************************)
AwaitsChoice(game) ==
    /\ game.state = "started"
    /\ \E k \in 1..Len(game.players) : ~HasSubmitted(game.players[k])

\* The make-choice r of c is for the only participant of the game without
\* a pending choice.
LastSubmission(c, r, n) ==
    /\ conns[c].type = "player"
    /\ conns[c].name = n
    /\ \A k \in 1..Len(games[n].players) :
          games[n].players[k].name # conns[c].player
              => HasSubmitted(games[n].players[k])
    /\ OnMessage(c, r)

C25_RoundWaitsForChoices ==
    [][\A n \in DOMAIN games :
        AwaitsChoice(games[n])
           => \/ /\ Results(sent') = {}
                 /\ n \in DOMAIN games'
                 /\ games'[n].state = "started"
              \/ \E c \in Conns, r \in MakeChoiceRequests : LastSubmission(c, r, n)
              \/ \E c \in Conns : conns[c].name = n /\ OnClose(c)]_vars

\* In a round of two, the first participant has submitted and was sent
\* nothing, and the second has not.
C25_Witness ==
    \E n \in DOMAIN games :
        /\ AwaitsChoice(games[n])
        /\ Len(games[n].players) = 2
        /\ truthy_value(games[n].players[1].choice)
        /\ sent = <<>>

(***************************************************************************)
(* C26. Whenever the connection of the controller of a registered game     *)
(* closes, whatever the state of the game, the controller channel and      *)
(* every participant channel of the game are closed and its name leaves    *)
(* the registry; no connection becomes a controller.                       *)
(***************************************************************************)
C26_ControllerCloseEndsGame ==
    [][\A c \in Conns :
        (IsController(c) /\ OnClose(c))
           => /\ conns[c].name \notin DOMAIN games'
              /\ \A k \in SessionConns(GameOf(c)) : conns'[k].status # "open"
              /\ \A k \in Conns :
                    /\ conns'[k].type = conns[k].type
                    /\ conns'[k].name = conns[k].name
              /\ sent' = <<>>]_vars

\* The controller of a game of two participants has gone and both
\* participants are being closed.
C26_Witness ==
    /\ games = NoGames
    /\ \E c, d, k \in Conns :
          /\ d # k
          /\ conns[c].type = "controller" /\ conns[c].status = "closed"
          /\ conns[d].type = "player" /\ conns[d].status = "closing"
          /\ conns[k].type = "player" /\ conns[k].status = "closing"

(***************************************************************************)
(* C27. A create request whose name is held by a game in the registry      *)
(* fails: the requesting connection is sent an error and closed and the    *)
(* game under that name (controller, password, rules, roster, state) is    *)
(* unchanged.  At all times a name stands for one game: no step puts       *)
(* another game under a name that is in the registry.                      *)
(***************************************************************************)
CreateRequests == {r \in Requests : r.type = "create"}

C27_CreateTakenNameFails ==
    [][/\ \A c \in Conns, r \in CreateRequests :
            (/\ conns[c].type = "initial"
             /\ r.name \in DOMAIN games
             /\ OnMessage(c, r))
               => /\ JoinFails(c)
                  /\ sent' = <<Send(c, ErrorRequest("game already exists"))>>
       /\ \A n \in DOMAIN games \cap DOMAIN games' :
            /\ games'[n].name = n
            /\ games'[n].connection = games[n].connection
            /\ games'[n].password = games[n].password
            /\ games'[n].rules = games[n].rules]_vars

\* A connection was refused the name of a game that has a participant.
C27_Witness ==
    \E c \in Conns, n \in DOMAIN games :
        /\ Len(games[n].players) >= 1
        /\ conns[c].status = "closing"
        /\ conns[c].type = "initial"
        /\ sent = <<Send(c, ErrorRequest("game already exists"))>>

(***************************************************************************)
(* C28. A join request that names a game that is not in the registry       *)
(* fails: the requesting connection is sent an error and closed, no game   *)
(* is created and the roster of no game changes.                           *)
(***************************************************************************)
C28_JoinMissingGameFails ==
    [][\A c \in Conns, r \in JoinRequests :
        (/\ conns[c].type = "initial"
         /\ r.game_name \notin DOMAIN games
         /\ OnMessage(c, r))
           => /\ JoinFails(c)
              /\ sent' = <<Send(c, ErrorRequest("game does not exist"))>>]_vars

(***************************************************************************)
(* PseudoPlayer as a state machine: set_choice and get_choice called in    *)
(* any order on the instances under test.                                  *)
(***************************************************************************)
Called(op, args, error, value) ==
    /\ call' = [op |-> op, args |-> args, error |-> error, value |-> value]
    /\ UNCHANGED <<rule_board, prev_board, repeated, first_error, setup_pc,
                   server_vars, cli_vars>>

SetChoice(k, choice) ==
    /\ pseudo' = [pseudo EXCEPT ![k] = pseudo_set_choice(@, choice)]
    /\ Called("set_choice", <<k, choice>>, NoError, Undefined)

GetChoice(k) ==
    /\ pseudo' = [pseudo EXCEPT ![k] = get_choice(@).player]
    /\ Called("get_choice", <<k>>, get_choice(pseudo[k]).error,
              get_choice(pseudo[k]).value)

\* What set_choice is called with: it takes any string.
PseudoChoices == Choices \cup {""}

NextPlayer ==
    \/ \E k \in 1..NumPlayers, choice \in PseudoChoices : SetChoice(k, choice)
    \/ \E k \in 1..NumPlayers : GetChoice(k)

SpecPlayer == Init /\ [][NextPlayer]_vars

(***************************************************************************)
(* C29. get_choice on a pseudo player that has no pending choice, because  *)
(* none was ever set or because an earlier get_choice consumed it, fails   *)
(* with an error and returns no value.                                     *)
(***************************************************************************)
C29_GetChoiceUnsetFails ==
    [][\A k \in 1..NumPlayers :
        (~HasSubmitted(pseudo[k]) /\ GetChoice(k))
           => call'.error # NoError]_vars

(***************************************************************************)
(* C30. Every message taken from a connection that has become a            *)
(* controller or a participant is handled by the game that connection      *)
(* created or joined: when it is dispatched, the game registered under    *)
(* the name of the connection has that connection as its controller, or   *)
(* holds it in its roster under the name it joined with.  It is never      *)
(* dispatched to another game and never when its game has left the         *)
(* registry.                                                               *)
(***************************************************************************)
C30_RoutedToOwnGame ==
    [][\A c \in Conns, r \in Requests :
        OnMessage(c, r)
           => /\ conns[c].type = "controller" => IsController(c)
              /\ conns[c].type = "player" => IsParticipant(c)]_vars

(***************************************************************************)
(* C32. del_rule(beater, beaten) changes nothing when beater is not a      *)
(* choice or the edge is absent; otherwise it removes exactly the edge     *)
(* beater -> beaten and leaves the choices, their order and every other    *)
(* edge as they were: no choice is deleted and an edge in the reverse      *)
(* direction stays.                                                        *)
(***************************************************************************)
C32_DelRuleFrame ==
    call.op = "del_rule" =>
        LET beater == call.args[1]
            beaten == call.args[2]
        IN  IF beater \notin Keys(prev_board)
               \/ <<beater, beaten>> \notin Edges(prev_board)
            THEN rule_board = prev_board
            ELSE /\ choices(rule_board) = choices(prev_board)
                 /\ Edges(rule_board) = Edges(prev_board) \ {<<beater, beaten>>}
                 /\ \A k \in 1..Len(rule_board) :
                        rule_board[k].key # beater =>
                            rule_board[k] = prev_board[k]

\* del_rule removed an edge from a graph that also holds an edge pointing
\* at the beater and a third edge.
C32_Witness ==
    /\ call.op = "del_rule"
    /\ <<call.args[1], call.args[2]>> \in Edges(prev_board)
    /\ \E e \in Edges(rule_board) : e[2] = call.args[1]
    /\ Cardinality(Edges(prev_board)) >= 3
    /\ call.error = NoError

(***************************************************************************)
(* C35. On a graph in which no two choices, equal or not, beat each other, *)
(* and for a round made of its choices: at most one index beats all other  *)
(* entries; under every reordering of the participants test names the same *)
(* participant as winner, or a tie when it is a tie; and the value at the  *)
(* winning index occurs at no other position of the round.                 *)
(***************************************************************************)
\* The reorderings of n participants: position k holds participant p[k].
Perms(n) ==
    {p \in [1..n -> 1..n] : \A a \in 1..n, b \in 1..n : p[a] = p[b] => a = b}

Reorder(chs, p) == [k \in 1..Len(chs) |-> chs[p[k]]]

C35_WinnerUnique ==
    (/\ call.op = "test"
     /\ Range(call.args) \subseteq Keys(rule_board)
     /\ \A e \in Edges(rule_board) : <<e[2], e[1]>> \notin Edges(rule_board))
        => /\ Cardinality(Winners(rule_board, call.args)) <= 1
           /\ \A p \in Perms(Len(call.args)) :
                LET reordered == test(rule_board, Reorder(call.args, p))
                IN  /\ reordered.error = NoError
                    /\ IF call.value = -1 THEN reordered.value = -1
                       ELSE /\ reordered.value # -1
                            /\ p[reordered.value + 1] = call.value + 1
           /\ call.value # -1 =>
                Count(call.args, At(call.args, call.value)) = 1

\* A three-entry round was won by its last entry, which is named at another
\* index under a reordering.
C35_Witness ==
    /\ call.op = "test"
    /\ Len(call.args) = 3
    /\ Range(call.args) \subseteq Keys(rule_board)
    /\ call.value = 2
    /\ \E p \in Perms(3) : test(rule_board, Reorder(call.args, p)).value = 0

(***************************************************************************)
(* The two copies of Rules side by side: an instance of the server core    *)
(* (rule_board) and one of the CLI core (cli_board), both starting empty   *)
(* and receiving the same calls.  add_choice, del_choice and del_rule are  *)
(* the same text in both copies; add_rule is not.                          *)
(***************************************************************************)
\* Rules.add_rule of the CLI core: no check of beater against beaten, each
\* choice created before the look-ups, and each list searched for its own
\* key.
cli_add_rule(board, rule) ==
    LET beater_added == IF ~truthy(board, rule.beater)
                        THEN add_choice(board, rule.beater) ELSE board
        added == IF ~truthy(beater_added, rule.beaten)
                 THEN add_choice(beater_added, rule.beaten) ELSE beater_added
    IN  IF ~has_key(added, rule.beater)
        THEN [board |-> added, error |-> TypeError]
        ELSE IF includes(get(added, rule.beater), rule.beater)
        THEN [board |-> added, error |-> NoError]
        ELSE IF ~has_key(added, rule.beaten)
        THEN [board |-> added, error |-> TypeError]
        ELSE IF includes(get(added, rule.beaten), rule.beaten)
        THEN [board |-> added, error |-> RuleError]
        ELSE [board |-> push_rule(added, rule), error |-> NoError]

PairNames == {"Rock", "Paper"} \cup InheritedNames

\* Bookkeeping of a call made on both instances.
RecordBoth(op, args, error, other_error) ==
    /\ prev_board' = rule_board
    /\ call' = [op |-> op, args |-> args, error |-> error, value |-> -1]
    /\ repeated' = (call.op = op /\ call.args = args)
    /\ first_error' = IF call.op = op /\ call.args = args THEN call.error
                      ELSE NoError
    /\ cli_error' = other_error
    /\ UNCHANGED <<setup_pc, server_vars, pseudo>>

BothAddChoice(name) ==
    /\ rule_board' = add_choice(rule_board, name)
    /\ cli_board' = add_choice(cli_board, name)
    /\ RecordBoth("add_choice", <<name>>, NoError, NoError)

BothDelChoice(name) ==
    /\ rule_board' = del_choice(rule_board, name)
    /\ cli_board' = del_choice(cli_board, name)
    /\ RecordBoth("del_choice", <<name>>, NoError, NoError)

BothAddRule(beater, beaten) ==
    LET result == add_rule(rule_board, Rule(beater, beaten))
        other == cli_add_rule(cli_board, Rule(beater, beaten))
    IN  /\ \A k \in 1..Len(other.board) : Len(other.board[k].val) <= MaxBeaten
        /\ rule_board' = result.board
        /\ cli_board' = other.board
        /\ RecordBoth("add_rule", <<beater, beaten>>, result.error, other.error)

BothDelRule(beater, beaten) ==
    LET result == del_rule(rule_board, Rule(beater, beaten))
        other == del_rule(cli_board, Rule(beater, beaten))
    IN  /\ rule_board' = result.board
        /\ cli_board' = other.board
        /\ RecordBoth("del_rule", <<beater, beaten>>, result.error, other.error)

NextBoth ==
    \/ \E name \in PairNames : BothAddChoice(name)
    \/ \E name \in PairNames : BothDelChoice(name)
    \/ \E beater \in PairNames, beaten \in PairNames : BothAddRule(beater, beaten)
    \/ \E beater \in PairNames, beaten \in PairNames : BothDelRule(beater, beaten)

SpecBoth == Init /\ [][NextBoth]_vars

(***************************************************************************)
(* C40. Run side by side from empty graphs on the same sequence of         *)
(* add_choice, del_choice, add_rule and del_rule calls, the add_rule of    *)
(* the server core and the add_rule of the CLI core throw in the same      *)
(* calls, and the two graphs are equal after every call.                   *)
(***************************************************************************)
C40_CopiesAgree ==
    /\ cli_board = rule_board
    /\ call.op = "add_rule" => (cli_error = NoError <=> call.error = NoError)

(***************************************************************************)
(* C36. The close event of a controller or participant connection whose    *)
(* session has been destroyed changes no session: the registry and every   *)
(* other connection stay as they are, also when a new session has been     *)
(* created under the same name in between.                                 *)
(***************************************************************************)
C36_StaleCloseChangesNothing ==
    [][\A c \in Conns :
        (/\ conns[c].type \in {"controller", "player"}
         /\ conns[c].status = "closing"
         /\ ~IsController(c)
         /\ ~IsParticipant(c)
         /\ OnClose(c))
           => /\ games' = games
              /\ \A k \in Conns \ {c} : conns'[k] = conns[k]]_vars

(***************************************************************************)
(* C31. A session whose roster is empty and whose state is open stays in   *)
(* the registry, open and with its controller channel as it is, through    *)
(* every step that is not the close event of its controller; and the       *)
(* close event of the last participant of an open session leaves the       *)
(* session registered with an empty roster, its controller channel         *)
(* untouched and a join still accepted.                                    *)
(***************************************************************************)
C31_EmptySessionLingers ==
    [][/\ \A n \in DOMAIN games :
            (/\ games[n].players = <<>>
             /\ games[n].state = "open"
             /\ ~OnClose(games[n].connection))
               => /\ n \in DOMAIN games'
                  /\ games'[n].connection = games[n].connection
                  /\ games'[n].state = "open"
                  /\ conns'[games[n].connection] = conns[games[n].connection]
       /\ \A c \in Conns :
            (/\ IsParticipant(c)
             /\ GameOf(c).state = "open"
             /\ Len(GameOf(c).players) = 1
             /\ OnClose(c))
               => LET n == conns[c].name
                  IN  /\ n \in DOMAIN games'
                      /\ games'[n] = [games[n] EXCEPT !.players = <<>>]
                      /\ conns'[games[n].connection] = conns[games[n].connection]
                      /\ \A k \in Conns \ {c} :
                            add_player(games'[n], conns[c].player, k,
                                       games[n].password).ret]_vars

(***************************************************************************)
(* C38. In every reachable state, no roster participant of a session       *)
(* whose state is open holds a pending choice: the reveal clears every     *)
(* choice of the round, and none is recorded between rounds.               *)
(***************************************************************************)
C38_NoPendingChoiceWhileOpen ==
    \A n \in DOMAIN games :
        games[n].state = "open" =>
            \A k \in 1..Len(games[n].players) :
                ~HasSubmitted(games[n].players[k])

\* A reveal has just cleared the choices of a two-participant round.
C38_Witness ==
    \E n \in DOMAIN games :
        /\ games[n].state = "open"
        /\ Len(games[n].players) = 2
        /\ \A k \in 1..2 : games[n].players[k].choice = Null
        /\ Results(sent) # {}

(***************************************************************************)
(* C39. The roster does not change while a round is in progress, so the    *)
(* participant names in the choices mapping of a results message are those *)
(* of the participants that were sent the choice prompt of that round:     *)
(* a step that sends choice prompts sends them to exactly the roster of a  *)
(* session it leaves started; a step that leaves a started session         *)
(* started leaves its roster and its controller as they are; and a step    *)
(* that sends a results message names exactly the roster of a started      *)
(* session and sends it to that roster.                                    *)
(***************************************************************************)
Recipients(msgs, type) ==
    {msgs[k].to : k \in {i \in 1..Len(msgs) : msgs[i].msg.type = type}}

RosterNames(game) == {game.players[k].name : k \in 1..Len(game.players)}

C39_RosterFixedDuringRound ==
    [][/\ Recipients(sent', "choice") # {} =>
            \E n \in DOMAIN games' :
                /\ n \in DOMAIN games
                /\ games[n].state = "open"
                /\ games'[n].state = "started"
                /\ games'[n].players = games[n].players
                /\ Recipients(sent', "choice") = RosterConns(games'[n])
       /\ \A n \in DOMAIN games \cap DOMAIN games' :
            (games[n].state = "started" /\ games'[n].state = "started")
                => /\ RosterNames(games'[n]) = RosterNames(games[n])
                   /\ RosterConns(games'[n]) = RosterConns(games[n])
                   /\ games'[n].connection = games[n].connection
       /\ \A m \in Results(sent') :
            \E n \in DOMAIN games :
                /\ games[n].state = "started"
                /\ DOMAIN m.choices = RosterNames(games[n])
                /\ Recipients(sent', "results")
                      = RosterConns(games[n]) \cup {games[n].connection}]_vars

\* A results message naming two participants has just been sent to them.
C39_Witness ==
    \E m \in Results(sent), n \in DOMAIN games :
        /\ DOMAIN m.choices = RosterNames(games[n])
        /\ Cardinality(DOMAIN m.choices) = 2
        /\ RosterConns(games[n]) \subseteq Recipients(sent, "results")

(***************************************************************************)
(* C33. A started round in which every roster participant has submitted a *)
(* valid choice is revealed: the handler of the last of these submissions  *)
(* broadcasts the results and returns the session to state open, the       *)
(* reveal being attempted within every submission and by nothing else.     *)
(* So no handler ends in a state in which a session is still started       *)
(* while each of its participants holds a pending choice that is a choice  *)
(* of the session's rules; from such a state no results message follows    *)
(* however fairly the inbound messages are processed, unless a participant *)
(* submits again.                                                          *)
(***************************************************************************)
C33_CompleteRoundRevealed ==
    \A n \in DOMAIN games :
        (games[n].state = "started" /\ ~crashed)
            => \E k \in 1..Len(games[n].players) :
                  \/ ~HasSubmitted(games[n].players[k])
                  \/ ~includes(choices(games[n].rules), games[n].players[k].choice)

(***************************************************************************)
(* Create requests with any rules payload.  A payload is the board its     *)
(* JSON text parses to; NoRules is a request without a rules field.        *)
(***************************************************************************)
SelfLoopRules == <<[key |-> "Rock", val |-> <<"Rock">>]>>

MutualRules ==
    <<[key |-> "Rock", val |-> <<"Paper">>], [key |-> "Paper", val |-> <<"Rock">>]>>

DanglingRules == <<[key |-> "Rock", val |-> <<"Lizard">>]>>

Payloads ==
    {NoRules, EmptyNameRules, SelfLoopRules, MutualRules, DanglingRules}

PayloadRequests ==
    {[type |-> "create", name |-> n, password |-> Undefined, rules |-> r] :
        n \in GameNames \cup {"attic"}, r \in Payloads}

NextCreate ==
    \/ \E c \in Conns, request \in PayloadRequests : OnMessage(c, request)
    \/ \E c \in Conns : OnClose(c)

SpecCreate == Init /\ [][NextCreate]_vars

(***************************************************************************)
(* C37. Whatever rules payload the create request carried, the graph of    *)
(* every registered session is well-formed: no choice beats itself, no two *)
(* choices beat each other, and every entry of a beaten-set is a choice.   *)
(***************************************************************************)
WellFormed(board) ==
    /\ \A e \in Edges(board) : e[1] # e[2]
    /\ \A e \in Edges(board) : <<e[2], e[1]>> \notin Edges(board)
    /\ \A e \in Edges(board) : e[2] \in Keys(board)

C37_SessionRulesWellFormed ==
    \A n \in DOMAIN games : WellFormed(games[n].rules)

(***************************************************************************)
(* Broadcasts to channels that fail.  The peer of a participant channel    *)
(* may close it at any time: from then on the socket is no longer open,    *)
(* no message of it arrives, and its close event is still to come; until   *)
(* that event is handled the participant is in the roster and is a         *)
(* recipient of every broadcast.                                           *)
(***************************************************************************)
PeerClose(c) ==
    /\ ~crashed
    /\ conns[c].status = "open"
    /\ conns[c].type = "player"
    /\ conns' = [conns EXCEPT ![c].status = "hung_up"]
    /\ UNCHANGED <<games, sent, crashed, rules_vars, pseudo, cli_vars>>

BroadcastRequests ==
    {r \in Requests :
        \/ r.type = "create" /\ r.name \in GameNames /\ r.password = Undefined
        \/ r.type = "join" /\ r.game_name \in GameNames
              /\ r.game_password = Undefined
        \/ r.type = "start-game"
        \/ r.type = "make-choice" /\ r.choice \in {"Rock", "Paper"}}

NextBroadcast ==
    \/ \E c \in Conns, request \in BroadcastRequests : OnMessage(c, request)
    \/ \E c \in Conns : OnClose(c)
    \/ \E c \in Conns : PeerClose(c)

SpecBroadcast == Init /\ [][NextBroadcast]_vars

(***************************************************************************)
(* C34. When a handler broadcasts (join notification, leave notification,  *)
(* choice prompt or results) and the channel of a recipient has failed,    *)
(* the broadcast is not stopped: the handler does not throw, the message   *)
(* still goes to every participant of the session it is meant for and,     *)
(* but for the choice prompt, to the controller, and the sessions are      *)
(* left as the handler leaves them when every send succeeds.               *)
(***************************************************************************)
BroadcastTypes == {"notify-join", "notify-leave", "choice", "results"}

\* msgs holds a broadcast message for a channel that is not open.
SendFails(msgs) ==
    \E i \in 1..Len(msgs) :
        /\ msgs[i].msg.type \in BroadcastTypes
        /\ conns[msgs[i].to].status # "open"

\* Whom a broadcast of the given type in the game, caused by connection c,
\* is meant for: the roster, without the joiner for a join notification,
\* and the controller, but not for a choice prompt.
MeantFor(game, type, c) ==
    (RosterConns(game) \ (IF type = "notify-join" THEN {c} ELSE {}))
        \cup (IF type = "choice" THEN {} ELSE {game.connection})

\* The step made what the handler computes, result, of every broadcast.
BroadcastCompleted(result, c) ==
    /\ ~crashed'
    /\ games' = result.games
    /\ \A t \in BroadcastTypes :
          (\E i \in 1..Len(result.sent) : result.sent[i].msg.type = t)
              => \E n \in DOMAIN games' :
                    Recipients(sent', t) = MeantFor(games'[n], t, c)

====
